---- MODULE Spec2Model ----
(***************************************************************************)
(* Model of the signal -> position -> return pipeline of Project-Meridian  *)
(* (src/data_ingest.py, src/signals.py).                                   *)
(*                                                                         *)
(* Numbers.  A float is modelled as an exact rational <<n, d>> in lowest   *)
(* terms with d > 0; the not-a-number value is <<0, 0>>.  A z-score is a   *)
(* quotient by a square root (the sample standard deviation), so it is kept*)
(* as <<sgn, n, d>>, standing for sgn * sqrt(n / d); its not-a-number value*)
(* is <<0, 0, 0>>.  Comparisons with a rational threshold are exact.       *)
(*                                                                         *)
(* Tables.  A DataFrame is a function from its index (a set of dates, the  *)
(* integers 1..n) to rows, a row being a function from the tickers to      *)
(* numbers; a Series is a function from its index to numbers.  Binary      *)
(* operations align on the union of the two indexes as pandas does.        *)
(***************************************************************************)
EXTENDS Integers, Sequences, FiniteSets, TLC

VARIABLES
    tickers,        \* the columns of the price table (TICKERS)
    price_df,       \* df: the PriceTable handed to the pipeline
    zs,             \* zs = compute_basket_zscores(df)
    pos,            \* pos = generate_positions(zs)
    entry_thresh,   \* generate_positions' entry_thresh
    exit_thresh,    \* generate_positions' exit_thresh
    cost_per_trade, \* backtest's cost_per_trade
    strat_ret,      \* backtest's first result
    strat_cum,      \* backtest's second result
    bench_ret,      \* benchmark period returns
    bench_cum,      \* benchmark cumulative returns
    s_cagr,         \* ann(strat_cum), by sign: "neg", "zero", "pos" or "nan"
    s_vol,          \* vol(strat_ret): "zero", "pos" or "nan"
    s_sharpe,       \* the Sharpe ratio, by sign, or "nan"
    pc              \* the position of the pipeline

vars == <<tickers, price_df, zs, pos, entry_thresh, exit_thresh, cost_per_trade,
          strat_ret, strat_cum, bench_ret, bench_cum, s_cagr, s_vol, s_sharpe, pc>>

(***************************************************************************)
(* Bounds of the model.                                                    *)
(***************************************************************************)
NumDates == 2

TickerSets == {{"A"}, {"A", "B"}, {"A", "B", "C"}}
PriceLevels == {1, 2}
\* The instruments whose prices may be missing (the pipeline treats every
\* instrument alike).
Gappy == {"A", "B"}

(***************************************************************************)
(* Float arithmetic.                                                       *)
(***************************************************************************)
NaN == <<0, 0>>
Zero == <<0, 1>>
One == <<1, 1>>

isna(x) == x[2] = 0

Abs(n) == IF n < 0 THEN -n ELSE n

RECURSIVE GCD(_, _)
GCD(a, b) == IF b = 0 THEN a ELSE GCD(b, a % b)

Rat(n, d) ==
    IF d = 0 THEN NaN
    ELSE LET g == GCD(Abs(n), Abs(d))
             s == IF d < 0 THEN -1 ELSE 1
         IN  <<(s * n) \div g, (s * d) \div g>>

Add(x, y) ==
    IF isna(x) \/ isna(y) THEN NaN
    ELSE LET g == GCD(x[2], y[2])
         IN  Rat(x[1] * (y[2] \div g) + y[1] * (x[2] \div g), (x[2] \div g) * y[2])

Neg(x) == <<-x[1], x[2]>>

Sub(x, y) == Add(x, Neg(y))

Mul(x, y) ==
    IF isna(x) \/ isna(y) THEN NaN
    ELSE LET g1 == GCD(Abs(x[1]), y[2])
             g2 == GCD(Abs(y[1]), x[2])
         IN  <<(x[1] \div g1) * (y[1] \div g2), (x[2] \div g2) * (y[2] \div g1)>>

\* x / y.  Prices are positive, so the only division by zero the pipeline
\* performs is 0 / 0 (a deviation from the mean over a zero standard
\* deviation), which is NaN.
Div(x, y) ==
    IF isna(x) \/ isna(y) \/ y[1] = 0 THEN NaN
    ELSE Rat(x[1] * y[2], x[2] * y[1])

AbsF(x) == <<Abs(x[1]), x[2]>>

Less(x, y) == x[1] * y[2] < y[1] * x[2]

(***************************************************************************)
(* z-scores: sgn * sqrt(n / d).                                            *)
(***************************************************************************)
ZNaN == <<0, 0, 0>>

zisna(z) == z[3] = 0

Sgn(n) == IF n < 0 THEN -1 ELSE IF n = 0 THEN 0 ELSE 1

\* x / sqrt(v): a deviation x over the standard deviation whose square is v.
DivStd(x, v) ==
    IF isna(x) \/ isna(v) \/ v[1] = 0 THEN ZNaN
    ELSE LET q == Div(Mul(x, x), v) IN <<Sgn(x[1]), q[1], q[2]>>

\* z > t and z < t for a rational threshold t; a comparison with NaN is False.
zgt(z, t) ==
    IF zisna(z) THEN FALSE
    ELSE IF z[1] > 0 THEN t[1] <= 0 \/ Less(Mul(t, t), <<z[2], z[3]>>)
    ELSE IF z[1] = 0 THEN t[1] < 0
    ELSE t[1] < 0 /\ Less(<<z[2], z[3]>>, Mul(t, t))

\* Mutant of zlt: the comparison points the wrong way.
zlt_flipped(z, t) == zgt(z, t)

zlt(z, t) ==
    IF zisna(z) THEN FALSE
    ELSE IF z[1] < 0 THEN t[1] >= 0 \/ Less(Mul(t, t), <<z[2], z[3]>>)
    ELSE IF z[1] = 0 THEN t[1] > 0
    ELSE t[1] > 0 /\ Less(<<z[2], z[3]>>, Mul(t, t))

(***************************************************************************)
(* pandas operations on DataFrames and Series.                             *)
(***************************************************************************)
\* pandas computes a table once, cell by cell, and then only looks it up:
\* comparing the function with itself makes the checker tabulate it.
eager(f) == IF f = f THEN f ELSE f

SetMax(S) == CHOOSE m \in S : \A e \in S : e <= m

\* The index label before d in index S, or 0 when d is the first.
Prev(S, d) == LET E == {e \in S : e < d} IN IF E = {} THEN 0 ELSE SetMax(E)

RECURSIVE Sum(_, _)
Sum(f, S) ==
    IF S = {} THEN Zero
    ELSE LET t == CHOOSE x \in S : TRUE IN Add(f[t], Sum(f, S \ {t}))

\* DataFrame.ffill(): the last valid value at or before each date.
ffill(df) == eager(
    [d \in DOMAIN df |-> [t \in tickers |->
        LET S == {e \in DOMAIN df : e <= d /\ ~isna(df[e][t])}
        IN  IF S = {} THEN NaN ELSE df[SetMax(S)][t]]])

\* DataFrame.dropna(how="all"): the rows with at least one value.
dropna_all(df) == eager(
    LET keep == {d \in DOMAIN df : \E t \in tickers : ~isna(df[d][t])}
    IN  [d \in keep |-> df[d]])

fillna(df, v) == eager(
    [d \in DOMAIN df |-> [t \in tickers |-> IF isna(df[d][t]) THEN v ELSE df[d][t]]])

fillna_s(s, v) == eager([d \in DOMAIN s |-> IF isna(s[d]) THEN v ELSE s[d]])

valid(row) == {t \in tickers : ~isna(row[t])}

\* sum(axis=1), mean(axis=1), std(axis=1) ** 2 of one row; NaNs are skipped.
row_sum(row) == Sum(row, valid(row))

row_mean(row) ==
    IF valid(row) = {} THEN NaN
    ELSE Div(row_sum(row), <<Cardinality(valid(row)), 1>>)

\* Mutant of row_var: the population variance (ddof = 0).
row_var_population(row) ==
    LET V == valid(row)
        m == row_mean(row)
    IN  IF V = {} THEN NaN
        ELSE Div(Sum([t \in V |-> Mul(Sub(row[t], m), Sub(row[t], m))], V),
                 <<Cardinality(V), 1>>)

row_var(row) ==
    LET V == valid(row)
        m == row_mean(row)
    IN  IF Cardinality(V) < 2 THEN NaN
        ELSE Div(Sum([t \in V |-> Mul(Sub(row[t], m), Sub(row[t], m))], V),
                 <<Cardinality(V) - 1, 1>>)

sum_axis1(df) == eager([d \in DOMAIN df |-> row_sum(df[d])])

mean_axis1(df) == eager([d \in DOMAIN df |-> row_mean(df[d])])

\* The square of std(axis=1), the sample standard deviation (ddof = 1).
std_axis1_sq(df) == eager([d \in DOMAIN df |-> row_var(df[d])])

\* DataFrame.shift(1) and DataFrame.diff(): the first row is NaN.
shift(df) == eager(
    [d \in DOMAIN df |-> [t \in tickers |->
        IF Prev(DOMAIN df, d) = 0 THEN NaN ELSE df[Prev(DOMAIN df, d)][t]]])

diff(df) == eager(
    [d \in DOMAIN df |-> [t \in tickers |->
        IF Prev(DOMAIN df, d) = 0 THEN NaN
        ELSE Sub(df[d][t], df[Prev(DOMAIN df, d)][t])]])

abs(df) == eager([d \in DOMAIN df |-> [t \in tickers |-> AbsF(df[d][t])]])

\* DataFrame.pct_change(): gaps are padded first (fill_method="pad", the
\* default of pandas 1.x and 2.x).
pct_change(df) == eager(
    LET f == ffill(df)
    IN  [d \in DOMAIN df |-> [t \in tickers |->
            IF Prev(DOMAIN df, d) = 0 THEN NaN
            ELSE Sub(Div(f[d][t], f[Prev(DOMAIN df, d)][t]), One)]])

\* Series.pct_change(), padded as well.
pct_change_s(s) == eager(
    LET f == [d \in DOMAIN s |->
                 LET S == {e \in DOMAIN s : e <= d /\ ~isna(s[e])}
                 IN  IF S = {} THEN NaN ELSE s[SetMax(S)]]
    IN  [d \in DOMAIN s |->
            IF Prev(DOMAIN s, d) = 0 THEN NaN
            ELSE Sub(Div(f[d], f[Prev(DOMAIN s, d)]), One)])

\* a * b for two DataFrames, aligned on the union of their indexes.
mul(a, b) == eager(
    [d \in DOMAIN a \cup DOMAIN b |-> [t \in tickers |->
        IF d \in DOMAIN a /\ d \in DOMAIN b THEN Mul(a[d][t], b[d][t]) ELSE NaN]])

\* a / b and a - b for two Series, aligned on the union of their indexes.
div_s(a, b) == eager(
    [d \in DOMAIN a \cup DOMAIN b |->
        IF d \in DOMAIN a /\ d \in DOMAIN b THEN Div(a[d], b[d]) ELSE NaN])

sub_s(a, b) == eager(
    [d \in DOMAIN a \cup DOMAIN b |->
        IF d \in DOMAIN a /\ d \in DOMAIN b THEN Sub(a[d], b[d]) ELSE NaN])

scale_s(s, c) == eager([d \in DOMAIN s |-> Mul(s[d], c)])

replace_s(s, a, b) == eager([d \in DOMAIN s |-> IF s[d] = a THEN b ELSE s[d]])

RECURSIVE Prod(_, _)
Prod(f, S) ==
    IF S = {} THEN One
    ELSE LET t == CHOOSE x \in S : TRUE IN Mul(f[t], Prod(f, S \ {t}))

\* Mutant of cum_return: the running product, not rebased to 0.
cum_return_gross(s) ==
    [d \in DOMAIN s |->
        IF isna(s[d]) THEN NaN
        ELSE Prod([e \in DOMAIN s |-> Add(One, s[e])],
                  {e \in DOMAIN s : e <= d /\ ~isna(s[e])})]

\* (1 + s).cumprod() - 1; cumprod skips NaN and leaves it in place.
cum_return(s) == eager(
    [d \in DOMAIN s |->
        IF isna(s[d]) THEN NaN
        ELSE Sub(Prod([e \in DOMAIN s |-> Add(One, s[e])],
                      {e \in DOMAIN s : e <= d /\ ~isna(s[e])}), One)])

(***************************************************************************)
(* The functions of the pipeline.                                          *)
(***************************************************************************)
compute_basket_zscores(df) == eager(
    LET clean == dropna_all(ffill(df))
        basket_mean == mean_axis1(clean)
        basket_std_sq == std_axis1_sq(clean)
    IN  [d \in DOMAIN clean |-> [t \in tickers |->
            DivStd(Sub(clean[d][t], basket_mean[d]), basket_std_sq[d])]])

\* Mutant of generate_positions: the state is left undefined between the
\* thresholds and forward-filled, and the leading gap is not filled with 0.
generate_positions_unfilled(zscores, entry, exit) ==
    ffill([d \in DOMAIN zscores |-> [t \in tickers |->
              IF zgt(zscores[d][t], exit) THEN Zero
              ELSE IF zlt(zscores[d][t], entry) THEN One ELSE NaN]])

generate_positions(zscores, entry, exit) == eager(
    LET seed == [d \in DOMAIN zscores |-> [t \in tickers |->
                    IF zlt(zscores[d][t], entry) THEN One ELSE Zero]]
        masked == [d \in DOMAIN zscores |-> [t \in tickers |->
                    IF zgt(zscores[d][t], exit) THEN Zero ELSE seed[d][t]]]
    IN  fillna(ffill(masked), Zero))

\* Mutant of shifted_pos: the positions are not lagged.
shifted_pos_unlagged(positions) == fillna(positions, Zero)

shifted_pos(positions) == fillna(shift(positions), Zero)

\* Mutant of n_open: a count of 0 is not replaced by 1.
n_open_unguarded(positions) == sum_axis1(shifted_pos(positions))

n_open(positions) == replace_s(sum_axis1(shifted_pos(positions)), Zero, One)

\* Mutant of trades: the turnover of the positions before the lag.
trades_unlagged(positions) == sum_axis1(abs(diff(positions)))

trades(positions) == sum_axis1(abs(diff(shifted_pos(positions))))

gross_ret(prices, positions) ==
    LET daily_ret == fillna(pct_change(prices), Zero)
    IN  div_s(sum_axis1(mul(shifted_pos(positions), daily_ret)), n_open(positions))

net_ret(prices, positions, cost) ==
    sub_s(gross_ret(prices, positions), scale_s(trades(positions), cost))

backtest(prices, positions, cost) ==
    LET ret == net_ret(prices, positions, cost)
    IN  [ret |-> ret, cum |-> cum_return(ret)]

\* Mutant of benchmark: the average of the instruments' own returns.
benchmark_mean_of_returns(df) == fillna_s(mean_axis1(pct_change(df)), Zero)

benchmark(df) == fillna_s(pct_change_s(mean_axis1(df)), Zero)

\* ann(c) = (1 + c.iloc[-1]) ** (252 / len(c)) - 1, by its sign: the power is
\* monotone, so the sign is that of the last cumulative return; a negative base
\* or a NaN gives NaN.
ann(c) ==
    LET last == c[SetMax(DOMAIN c)]
    IN  IF isna(last) \/ Add(One, last)[1] < 0 THEN "nan"
        ELSE IF last[1] < 0 THEN "neg"
        ELSE IF last[1] = 0 THEN "zero" ELSE "pos"

\* vol(r) = r.std() * 252 ** 0.5: NaN under two values, zero when all are equal.
vol(r) ==
    LET V == {d \in DOMAIN r : ~isna(r[d])}
    IN  IF Cardinality(V) < 2 THEN "nan"
        ELSE IF \A d, e \in V : r[d] = r[e] THEN "zero" ELSE "pos"

\* s_cagr / s_vol if s_vol else float('nan'); NaN is truthy.
sharpe(cagr, v) ==
    IF v = "zero" THEN "nan"
    ELSE IF v = "nan" \/ cagr = "nan" THEN "nan" ELSE cagr

(***************************************************************************)
(* The main pipeline, one action per step of __main__.                     *)
(***************************************************************************)
PriceValues == {NaN} \cup {<<p, 1>> : p \in PriceLevels}

DefaultEntry == <<-1, 1>>
DefaultExit == <<0, 1>>
DefaultCost == <<1, 2000>>

Unset ==
    /\ strat_ret = <<>> /\ strat_cum = <<>>
    /\ bench_ret = <<>> /\ bench_cum = <<>>
    /\ s_cagr = "unset" /\ s_vol = "unset" /\ s_sharpe = "unset"

Init ==
    /\ tickers \in TickerSets
    /\ \E n \in 0..NumDates : price_df \in [1..n -> [tickers -> PriceValues]]
    /\ \A d \in DOMAIN price_df : \A t \in tickers \ Gappy : ~isna(price_df[d][t])
    /\ zs = <<>> /\ pos = <<>>
    /\ entry_thresh = DefaultEntry
    /\ exit_thresh = DefaultExit
    /\ cost_per_trade = DefaultCost
    /\ Unset
    /\ pc = "start"

ComputeZscores ==
    /\ pc = "start"
    /\ zs' = compute_basket_zscores(price_df)
    /\ pc' = "signals"
    /\ UNCHANGED <<tickers, price_df, pos, entry_thresh, exit_thresh, cost_per_trade,
                   strat_ret, strat_cum, bench_ret, bench_cum, s_cagr, s_vol, s_sharpe>>

GeneratePositions ==
    /\ pc = "signals"
    /\ pos' = generate_positions(zs, entry_thresh, exit_thresh)
    /\ pc' = "positions"
    /\ UNCHANGED <<tickers, price_df, zs, entry_thresh, exit_thresh, cost_per_trade,
                   strat_ret, strat_cum, bench_ret, bench_cum, s_cagr, s_vol, s_sharpe>>

Backtest ==
    /\ pc = "positions"
    /\ LET result == backtest(price_df, pos, cost_per_trade)
       IN  strat_ret' = result.ret /\ strat_cum' = result.cum
    /\ pc' = "backtest"
    /\ UNCHANGED <<tickers, price_df, zs, pos, entry_thresh, exit_thresh, cost_per_trade,
                   bench_ret, bench_cum, s_cagr, s_vol, s_sharpe>>

Benchmark ==
    /\ pc = "backtest"
    /\ bench_ret' = benchmark(price_df)
    /\ bench_cum' = cum_return(benchmark(price_df))
    /\ pc' = "benchmark"
    /\ UNCHANGED <<tickers, price_df, zs, pos, entry_thresh, exit_thresh, cost_per_trade,
                   strat_ret, strat_cum, s_cagr, s_vol, s_sharpe>>

\* c.iloc[-1] of an empty series raises IndexError: no statistics are reported.
Summary ==
    /\ pc = "benchmark"
    /\ IF DOMAIN strat_cum = {}
       THEN /\ pc' = "IndexError"
            /\ UNCHANGED <<s_cagr, s_vol, s_sharpe>>
       ELSE /\ s_cagr' = ann(strat_cum)
            /\ s_vol' = vol(strat_ret)
            /\ s_sharpe' = sharpe(ann(strat_cum), vol(strat_ret))
            /\ pc' = "done"
    /\ UNCHANGED <<tickers, price_df, zs, pos, entry_thresh, exit_thresh, cost_per_trade,
                   strat_ret, strat_cum, bench_ret, bench_cum>>

Next == ComputeZscores \/ GeneratePositions \/ Backtest \/ Benchmark \/ Summary

Spec == Init /\ [][Next]_vars

(***************************************************************************)
(* The pipeline on the concrete two-instrument scenario and its            *)
(* neighbours: every table over the scenario's dates and price levels.     *)
(***************************************************************************)
ScenarioA == <<90, 100, 110>>
ScenarioB == <<110, 100, 90>>

ScenarioTable ==
    [d \in DOMAIN ScenarioA |->
        [t \in {"A", "B"} |-> IF t = "A" THEN <<ScenarioA[d], 1>> ELSE <<ScenarioB[d], 1>>]]

InitScenario ==
    /\ tickers = {"A", "B"}
    /\ price_df \in [DOMAIN ScenarioA ->
                        [tickers -> {<<ScenarioA[d], 1>> : d \in DOMAIN ScenarioA}]]
    /\ zs = <<>> /\ pos = <<>>
    /\ entry_thresh = DefaultEntry
    /\ exit_thresh = DefaultExit
    /\ cost_per_trade = DefaultCost
    /\ Unset
    /\ pc = "start"

SpecScenario == InitScenario /\ [][Next]_vars

(***************************************************************************)
(* generate_positions on every z-score table and pair of thresholds.       *)
(***************************************************************************)
\* -2, -1, -1/2, 1/2 and NaN.
ZValues == {ZNaN, <<-1, 4, 1>>, <<-1, 1, 1>>, <<-1, 1, 4>>, <<1, 1, 4>>}
Thresholds == {<<-1, 1>>, <<0, 1>>}

InitPositions ==
    /\ tickers \in {{"A"}, {"A", "B"}}
    /\ \E n \in 1..NumDates : zs \in [1..n -> [tickers -> ZValues]]
    /\ price_df = <<>> /\ pos = <<>>
    /\ entry_thresh \in Thresholds
    /\ exit_thresh \in Thresholds
    /\ cost_per_trade = DefaultCost
    /\ Unset
    /\ pc = "signals"

NextPositions == GeneratePositions

SpecPositions == InitPositions /\ [][NextPositions]_vars

(***************************************************************************)
(* backtest and the statistics on every pre-aligned prices/positions pair. *)
(* The gaps of the price table are those of instrument A (backtest treats  *)
(* every instrument alike).                                                *)
(***************************************************************************)
Costs == {Zero, DefaultCost}

InitBacktest ==
    /\ tickers \in {{"A"}, {"A", "B"}}
    /\ \E n \in 1..NumDates :
          /\ price_df \in [1..n -> [tickers -> PriceValues]]
          /\ \A d \in 1..n : \A t \in tickers \ {"A"} : ~isna(price_df[d][t])
          /\ pos \in [1..n -> [tickers -> {Zero, One}]]
    /\ zs = <<>>
    /\ entry_thresh = DefaultEntry
    /\ exit_thresh = DefaultExit
    /\ cost_per_trade \in Costs
    /\ Unset
    /\ pc = "positions"

NextBacktest == Backtest \/ Benchmark \/ Summary

SpecBacktest == InitBacktest /\ [][NextBacktest]_vars

(***************************************************************************)
(* Claims.                                                                 *)
(***************************************************************************)
PositionsDone == pc \in {"positions", "backtest", "benchmark", "done"}
BacktestDone == pc \in {"backtest", "benchmark", "done"}
BenchmarkDone == pc \in {"benchmark", "done"}

\* C1: hysteresis hold.  For every instrument and consecutive dates, a position
\* of 1 followed by a z-score that does not exceed exit_thresh (a z-score in
\* the band between the thresholds, or an undefined one) stays 1.
C1_HysteresisHold ==
    PositionsDone =>
        \A t \in tickers : \A d \in DOMAIN pos :
            ( /\ Prev(DOMAIN pos, d) # 0
              /\ pos[Prev(DOMAIN pos, d)][t] = One
              /\ ~zgt(zs[d][t], exit_thresh) )
            => pos[d][t] = One

\* The price tables that differ from price_df in the price of one instrument
\* at one date: <<t, T, v>> puts price v for instrument t at date T.
Perturbations ==
    {x \in tickers \X (DOMAIN price_df) \X (PriceValues \ {NaN}) :
        ~isna(price_df[x[2]][x[1]]) /\ price_df[x[2]][x[1]] # x[3]}

Perturbed(x) == [price_df EXCEPT ![x[2]][x[1]] = x[3]]

AltPositions(x) ==
    generate_positions(compute_basket_zscores(Perturbed(x)), entry_thresh, exit_thresh)

AltReturns(x) == net_ret(Perturbed(x), AltPositions(x), cost_per_trade)

\* C2 as stated: changing one price at date T leaves the net strategy return
\* of the period ending at T unchanged.
C2_ReturnAtTUnchanged ==
    pc = "backtest" =>
        \A x \in Perturbations : AltReturns(x)[x[2]] = strat_ret[x[2]]

\* C2 as amended: changing one price at date T leaves unchanged the net
\* returns of every period ending before T, and the lagged positions (hence
\* the open count and the turnover) applied at T; the return at T itself moves
\* only through the period returns of the instruments held over that period.
C2_NoLookAhead ==
    pc = "backtest" =>
        \A x \in Perturbations :
            LET alt_pos == AltPositions(x)
                alt_ret == net_ret(Perturbed(x), alt_pos, cost_per_trade)
            IN  /\ \A d \in DOMAIN strat_ret : d < x[2] => alt_ret[d] = strat_ret[d]
                /\ shifted_pos(alt_pos)[x[2]] = shifted_pos(pos)[x[2]]
                /\ trades(alt_pos)[x[2]] = trades(pos)[x[2]]

\* A price change at T that moves the return at T: the instrument is held
\* over the period ending at T.
C2_Witness ==
    /\ pc = "backtest"
    /\ \E x \in Perturbations :
          /\ shifted_pos(pos)[x[2]][x[1]] = One
          /\ AltReturns(x)[x[2]] # strat_ret[x[2]]

\* C3: an input with no usable row is a hard failure: compute_basket_zscores
\* never returns an empty z-score table to its caller.
C3_EmptyInputFails == pc = "signals" => DOMAIN zs # {}

C10_TwoInstrumentsNeverEnter ==
    (Cardinality(tickers) <= 2 /\ PositionsDone) =>
        \A d \in DOMAIN zs : \A t \in tickers :
            /\ zisna(zs[d][t]) \/ zs[d][t][1] >= 0 \/ zs[d][t][2] <= zs[d][t][3]
            /\ pos[d][t] = Zero

\* Two instruments with a defined, negative z-score, positions generated.
C10_Witness ==
    /\ Cardinality(tickers) = 2
    /\ pc = "positions"
    /\ \E d \in DOMAIN zs : \E t \in tickers : zs[d][t][1] < 0

\* C4 as stated: on the scenario table the first date has mean 100 and
\* standard deviation 10, and the z-scores of A and B are -1 and +1.
C4_ScenarioUnitZ ==
    (pc = "signals" /\ price_df = ScenarioTable) =>
        /\ mean_axis1(price_df)[1] = <<100, 1>>
        /\ std_axis1_sq(price_df)[1] = <<10 * 10, 1>>
        /\ zs[1]["A"] = <<-1, 1, 1>>
        /\ zs[1]["B"] = <<1, 1, 1>>

\* C4 as amended: on the scenario table the first date has mean 100 and
\* sample standard deviation sqrt(200), about 14.14, and the z-scores of A
\* and B are -1/sqrt(2) and +1/sqrt(2), about -0.7071 and +0.7071.
C4_ScenarioSampleZ ==
    (pc = "signals" /\ price_df = ScenarioTable) =>
        /\ mean_axis1(price_df)[1] = <<100, 1>>
        /\ std_axis1_sq(price_df)[1] = <<200, 1>>
        /\ zs[1]["A"] = <<-1, 1, 2>>
        /\ zs[1]["B"] = <<1, 1, 2>>

\* The z-scores of the scenario table have been computed.
C4_Witness ==
    /\ pc = "signals"
    /\ price_df = ScenarioTable
    /\ ~zisna(zs[1]["A"]) /\ ~zisna(zs[1]["B"])

\* C6: for every z-score table and pair of thresholds, every cell of the
\* position table is 0 or 1, none is undefined, and a cell whose z-score is
\* undefined and that no entry precedes is 0.
C6_PositionsZeroOrOne ==
    pc = "positions" =>
        /\ DOMAIN pos = DOMAIN zs
        /\ \A d \in DOMAIN pos : \A t \in tickers :
              /\ pos[d][t] \in {Zero, One}
              /\ ( /\ zisna(zs[d][t])
                   /\ \A e \in DOMAIN zs : e <= d => ~zlt(zs[e][t], entry_thresh) )
                 => pos[d][t] = Zero

\* Thresholds with entry_thresh >= exit_thresh, an entry, and after it an
\* undefined z-score.
C6_Witness ==
    /\ pc = "positions"
    /\ ~Less(entry_thresh, exit_thresh)
    /\ \E t \in tickers : \E d, e \in DOMAIN zs :
          e < d /\ pos[e][t] = One /\ zisna(zs[d][t])

\* The instruments whose lagged position at date d differs from their lagged
\* position at the date before; none on the first date.
LaggedPosition(d, t) ==
    IF Prev(DOMAIN pos, d) = 0 THEN Zero ELSE pos[Prev(DOMAIN pos, d)][t]

Traded(d) ==
    IF Prev(DOMAIN pos, d) = 0 THEN {}
    ELSE {t \in tickers : LaggedPosition(d, t) # LaggedPosition(Prev(DOMAIN pos, d), t)}

C8_FirstDateZero ==
    pc = "backtest" =>
        \A d \in DOMAIN price_df :
            Prev(DOMAIN price_df, d) = 0 =>
                /\ \A t \in tickers :
                      /\ fillna(pct_change(price_df), Zero)[d][t] = Zero
                      /\ shifted_pos(pos)[d][t] = Zero
                /\ trades(pos)[d] = Zero
                /\ strat_ret[d] = Zero
                /\ strat_cum[d] = Zero

\* A positions table whose first row holds a 1, a cost, and a later return
\* that is not 0.
C8_Witness ==
    /\ pc = "backtest"
    /\ cost_per_trade # Zero
    /\ \E t \in tickers : pos[1][t] = One
    /\ \E d \in DOMAIN strat_ret : strat_ret[d] # Zero /\ strat_cum[d] # Zero

AllFlat == \A d \in DOMAIN pos : \A t \in tickers : pos[d][t] = Zero

\* C9: with a position table that is 0 everywhere, the open-position count is
\* 1 on every date, every net and cumulative return is 0, and the Sharpe
\* ratio is reported as not-a-number.
C9_FlatIsNeutral ==
    (AllFlat /\ BacktestDone) =>
        /\ \A d \in DOMAIN pos :
              /\ n_open(pos)[d] = One
              /\ strat_ret[d] = Zero
              /\ strat_cum[d] = Zero
        /\ pc = "done" => s_sharpe = "nan"

\* No position, prices that move, and the statistics reported with a zero
\* volatility.
C9_Witness ==
    /\ AllFlat
    /\ pc = "done"
    /\ s_vol = "zero"
    /\ \E d \in DOMAIN price_df : \E t \in tickers :
          fillna(pct_change(price_df), Zero)[d][t] # Zero

====
